---- MODULE Spec2Model ----
(***************************************************************************)
(* Smash OBS API: the per-match stage striking state machine of            *)
(* src/server.js, its action dispatcher (socket.on('action')), the join    *)
(* handler and the state query, with the messages each handler emits.      *)
(***************************************************************************)
EXTENDS Integers, Sequences, FiniteSets, TLC

VARIABLES
    matchStates,     \* server.js:49   Map matchId -> match state
    currentMatchId,  \* server.js:320  per connection closure variable
    rooms,           \* socket.io room membership of each connection (socket.join)
    request,         \* the message the last handler run received
    emitted,         \* the messages the last handler run emitted, in order
    inTransit,       \* per connection, the state:update messages sent to it that
                     \* its page has not yet handled, oldest first
    currentState,    \* per connection, the variable of that name of its page:
                     \* the last state:update the page has handled
    arrived,         \* every message that reached the server, in order
    pending          \* the arrived messages not yet handled, in order

vars == <<matchStates, currentMatchId, rooms, request, emitted, inTransit,
          currentState, arrived, pending>>

----------------------------------------------------------------------------
(* Values                                                                  *)

\* JavaScript null and undefined where the code only compares the value with
\* string literals, looks it up in the catalog or prints it in a template
\* string (type, stageId, mode, pick, error): written as they print.
Null == "null"
Undefined == "undefined"

\* A match id is whatever primitive the message carries, and the code tests its
\* truthiness: the value is kept as the pair of its typeof and its String(v),
\* so that the string "undefined" is not undefined and "" is not absent.
Str(s) == <<"string", s>>
JsUndefined == <<"undefined", "undefined">>
JsNull == <<"object", "null">>
Falsy == {JsUndefined, JsNull, Str(""), <<"number", "0">>, <<"boolean", "false">>}
Truthy(v) == v \notin Falsy

\* The literal 'default' and the other match name the requests use.
Default == Str("default")
M1 == Str("m1")

\* data/stages.json, ids in catalog order (the nine legal stages of the README).
stageIds ==
    << "battlefield", "small-battlefield", "fd", "smashville", "ps2",
       "town-city", "yoshis-story", "hollow-bastion", "kalos" >>

PHASES == {"WINNER_BAN", "LOSER_BAN", "WINNER_PICK", "LOSER_PICK", "DONE"}

\* Bounds of the environment.
\* MaxFresh: how many of the not yet banned stages (in catalog order) a request
\* may name; MaxBanned: how many of the banned ones.
MaxFresh == 1
MaxBanned == 1
\* MaxArrivals, MaxRoomsArrivals: how many messages the clients send in all, in
\* the specification of the concurrent connections and in the one of the rooms.
\* The server handles every message that arrives and the pages every
\* state:update: what is sent is the only thing bounded.
MaxArrivals == 4
MaxRoomsArrivals == 4

Sockets == {"s1", "s2"}
MatchIds == {Default, M1}

\* A stage id that is not in the catalog.
BadStage == "not-a-stage"

Range(f) == {f[i] : i \in DOMAIN f}

\* Array.prototype.includes
includes(arr, x) == \E i \in DOMAIN arr : arr[i] = x

\* Array.prototype.filter with the predicate 'id is not x', order kept.
RECURSIVE filterOut(_, _)
filterOut(arr, x) ==
    IF arr = <<>> THEN <<>>
    ELSE IF Head(arr) = x THEN filterOut(Tail(arr), x)
         ELSE <<Head(arr)>> \o filterOut(Tail(arr), x)

\* Array.prototype.filter with the predicate 'id is not in bans', order kept.
RECURSIVE filterNotIn(_, _)
filterNotIn(arr, bans) ==
    IF arr = <<>> THEN <<>>
    ELSE IF includes(bans, Head(arr)) THEN filterNotIn(Tail(arr), bans)
         ELSE <<Head(arr)>> \o filterNotIn(Tail(arr), bans)

----------------------------------------------------------------------------
(* State management                                                        *)

createInitialState(mode) ==
    [ mode |-> mode, phase |-> "WINNER_BAN", bans |-> <<>>, pick |-> Null,
      history |-> <<>> ]

\* Map.set
MapSet(ms, matchId, st) ==
    [ m \in (DOMAIN ms) \cup {matchId} |-> IF m = matchId THEN st ELSE ms[m] ]

\* getState that hands a new match the state object of a match already there.
getStateShared(ms, matchId) ==
    IF matchId \in DOMAIN ms THEN ms
    ELSE IF DOMAIN ms = {} THEN MapSet(ms, matchId, createInitialState("G1"))
    ELSE MapSet(ms, matchId, ms[CHOOSE m \in DOMAIN ms : TRUE])

\* getState: the map after the lazy creation; the state is then ms[matchId].
getState(ms, matchId) ==
    IF matchId \in DOMAIN ms THEN ms ELSE MapSet(ms, matchId, createInitialState("G1"))

\* getAvailableStages that also drops the picked stage.
getAvailableStagesUnpicked(state) ==
    filterOut(filterNotIn(stageIds, state.bans), state.pick)

getAvailableStages(state) == filterNotIn(stageIds, state.bans)

getBansRemaining(state) ==
    IF state.phase = "WINNER_BAN" THEN 3 - Len(state.bans)
    ELSE IF state.mode = "G1" /\ state.phase = "LOSER_BAN" THEN 7 - Len(state.bans)
    ELSE 0

getPicksRemaining(state) ==
    IF state.phase \in {"WINNER_PICK", "LOSER_PICK"}
    THEN (IF state.pick # Null THEN 0 ELSE 1)
    ELSE 0

\* advancePhase that leaves WINNER_BAN one ban late (at 4 instead of 3).
advancePhaseLate(state) ==
    IF state.mode = "G1"
    THEN IF state.phase = "WINNER_BAN" /\ Len(state.bans) >= 4
         THEN [state EXCEPT !.phase = "LOSER_BAN"]
         ELSE IF state.phase = "LOSER_BAN" /\ Len(state.bans) >= 7
         THEN [state EXCEPT !.phase = "WINNER_PICK"]
         ELSE IF state.phase = "WINNER_PICK" /\ state.pick # Null
         THEN [state EXCEPT !.phase = "DONE"]
         ELSE state
    ELSE IF state.phase = "WINNER_BAN" /\ Len(state.bans) >= 4
         THEN [state EXCEPT !.phase = "LOSER_PICK"]
         ELSE IF state.phase = "LOSER_PICK" /\ state.pick # Null
         THEN [state EXCEPT !.phase = "DONE"]
         ELSE state

\* advancePhase that stays in the pick phase once the pick is made.
advancePhaseNoDone(state) ==
    IF state.mode = "G1"
    THEN IF state.phase = "WINNER_BAN" /\ Len(state.bans) >= 3
         THEN [state EXCEPT !.phase = "LOSER_BAN"]
         ELSE IF state.phase = "LOSER_BAN" /\ Len(state.bans) >= 7
         THEN [state EXCEPT !.phase = "WINNER_PICK"]
         ELSE state
    ELSE IF state.phase = "WINNER_BAN" /\ Len(state.bans) >= 3
         THEN [state EXCEPT !.phase = "LOSER_PICK"]
         ELSE state

\* advancePhase with the LOSER_BAN threshold off by one (6 instead of 7).
advancePhaseEarly(state) ==
    IF state.mode = "G1"
    THEN IF state.phase = "WINNER_BAN" /\ Len(state.bans) >= 3
         THEN [state EXCEPT !.phase = "LOSER_BAN"]
         ELSE IF state.phase = "LOSER_BAN" /\ Len(state.bans) >= 6
         THEN [state EXCEPT !.phase = "WINNER_PICK"]
         ELSE IF state.phase = "WINNER_PICK" /\ state.pick # Null
         THEN [state EXCEPT !.phase = "DONE"]
         ELSE state
    ELSE IF state.phase = "WINNER_BAN" /\ Len(state.bans) >= 3
         THEN [state EXCEPT !.phase = "LOSER_PICK"]
         ELSE IF state.phase = "LOSER_PICK" /\ state.pick # Null
         THEN [state EXCEPT !.phase = "DONE"]
         ELSE state

advancePhase(state) ==
    IF state.mode = "G1"
    THEN IF state.phase = "WINNER_BAN" /\ Len(state.bans) >= 3
         THEN [state EXCEPT !.phase = "LOSER_BAN"]
         ELSE IF state.phase = "LOSER_BAN" /\ Len(state.bans) >= 7
         THEN [state EXCEPT !.phase = "WINNER_PICK"]
         ELSE IF state.phase = "WINNER_PICK" /\ state.pick # Null
         THEN [state EXCEPT !.phase = "DONE"]
         ELSE state
    ELSE IF state.phase = "WINNER_BAN" /\ Len(state.bans) >= 3
         THEN [state EXCEPT !.phase = "LOSER_PICK"]
         ELSE IF state.phase = "LOSER_PICK" /\ state.pick # Null
         THEN [state EXCEPT !.phase = "DONE"]
         ELSE state

----------------------------------------------------------------------------
(* Action handlers: each yields the result object and the state after it.   *)
(* Date.now() in an event is left out: no handler reads it.                 *)

Fail(state, error) == [ result |-> [ok |-> FALSE, error |-> error], state |-> state ]

\* handleBan that validates the phase before the 'already banned' check.
handleBanPhaseFirst(state, stageId) ==
    IF ~includes(stageIds, stageId)
    THEN Fail(state, "Invalid stage: " \o stageId)
    ELSE IF state.phase # "WINNER_BAN" /\ state.phase # "LOSER_BAN"
    THEN Fail(state, "Cannot ban in phase: " \o state.phase)
    ELSE IF includes(state.bans, stageId)
    THEN Fail(state, "Stage already banned: " \o stageId)
    ELSE IF getBansRemaining(state) <= 0
    THEN Fail(state, "No bans remaining in this phase")
    ELSE [ result |-> [ok |-> TRUE, event |-> [type |-> "BAN", stageId |-> stageId]],
           state |-> advancePhase(
               [state EXCEPT
                  !.bans = Append(@, stageId),
                  !.history = Append(@, [action |-> "BAN", stageId |-> stageId,
                                          prevPhase |-> state.phase])]) ]

\* handleBan that records the phase after the ban as prevPhase.
handleBanPostPhase(state, stageId) ==
    IF ~includes(stageIds, stageId)
    THEN Fail(state, "Invalid stage: " \o stageId)
    ELSE IF includes(state.bans, stageId)
    THEN Fail(state, "Stage already banned: " \o stageId)
    ELSE IF state.phase # "WINNER_BAN" /\ state.phase # "LOSER_BAN"
    THEN Fail(state, "Cannot ban in phase: " \o state.phase)
    ELSE IF getBansRemaining(state) <= 0
    THEN Fail(state, "No bans remaining in this phase")
    ELSE LET banned == advancePhase([state EXCEPT !.bans = Append(@, stageId)])
         IN [ result |-> [ok |-> TRUE,
                          event |-> [type |-> "BAN", stageId |-> stageId]],
              state |-> [banned EXCEPT
                  !.history = Append(@, [action |-> "BAN", stageId |-> stageId,
                                          prevPhase |-> banned.phase])] ]

\* handleBan without the 'not already banned' validation.
handleBanTwice(state, stageId) ==
    IF ~includes(stageIds, stageId)
    THEN Fail(state, "Invalid stage: " \o stageId)
    ELSE IF state.phase # "WINNER_BAN" /\ state.phase # "LOSER_BAN"
    THEN Fail(state, "Cannot ban in phase: " \o state.phase)
    ELSE IF getBansRemaining(state) <= 0
    THEN Fail(state, "No bans remaining in this phase")
    ELSE [ result |-> [ok |-> TRUE, event |-> [type |-> "BAN", stageId |-> stageId]],
           state |-> advancePhase(
               [state EXCEPT
                  !.bans = Append(@, stageId),
                  !.history = Append(@, [action |-> "BAN", stageId |-> stageId,
                                          prevPhase |-> state.phase])]) ]

\* handleBan without the phase and quota validations.
handleBanAnyPhase(state, stageId) ==
    IF ~includes(stageIds, stageId)
    THEN Fail(state, "Invalid stage: " \o stageId)
    ELSE IF includes(state.bans, stageId)
    THEN Fail(state, "Stage already banned: " \o stageId)
    ELSE [ result |-> [ok |-> TRUE, event |-> [type |-> "BAN", stageId |-> stageId]],
           state |-> advancePhase(
               [state EXCEPT
                  !.bans = Append(@, stageId),
                  !.history = Append(@, [action |-> "BAN", stageId |-> stageId,
                                          prevPhase |-> state.phase])]) ]

handleBan(state, stageId) ==
    IF ~includes(stageIds, stageId)
    THEN Fail(state, "Invalid stage: " \o stageId)
    ELSE IF includes(state.bans, stageId)
    THEN Fail(state, "Stage already banned: " \o stageId)
    ELSE IF state.phase # "WINNER_BAN" /\ state.phase # "LOSER_BAN"
    THEN Fail(state, "Cannot ban in phase: " \o state.phase)
    ELSE IF getBansRemaining(state) <= 0
    THEN Fail(state, "No bans remaining in this phase")
    ELSE [ result |-> [ok |-> TRUE, event |-> [type |-> "BAN", stageId |-> stageId]],
           state |-> advancePhase(
               [state EXCEPT
                  !.bans = Append(@, stageId),
                  !.history = Append(@, [action |-> "BAN", stageId |-> stageId,
                                          prevPhase |-> state.phase])]) ]

\* handlePick with the 'no pick yet' validation ahead of the phase validation.
handlePickPickedFirst(state, stageId) ==
    IF ~includes(stageIds, stageId)
    THEN Fail(state, "Invalid stage: " \o stageId)
    ELSE IF includes(state.bans, stageId)
    THEN Fail(state, "Cannot pick banned stage: " \o stageId)
    ELSE IF state.pick # Null
    THEN Fail(state, "Already picked")
    ELSE IF state.phase \notin {"WINNER_PICK", "LOSER_PICK"}
    THEN Fail(state, "Cannot pick in phase: " \o state.phase)
    ELSE [ result |-> [ok |-> TRUE, event |-> [type |-> "PICK", stageId |-> stageId]],
           state |-> advancePhase(
               [state EXCEPT
                  !.pick = stageId,
                  !.history = Append(@, [action |-> "PICK", stageId |-> stageId,
                                          prevPhase |-> state.phase])]) ]

\* handlePick without the phase validation.
handlePickAnyPhase(state, stageId) ==
    IF ~includes(stageIds, stageId)
    THEN Fail(state, "Invalid stage: " \o stageId)
    ELSE IF includes(state.bans, stageId)
    THEN Fail(state, "Cannot pick banned stage: " \o stageId)
    ELSE IF state.pick # Null
    THEN Fail(state, "Already picked")
    ELSE [ result |-> [ok |-> TRUE, event |-> [type |-> "PICK", stageId |-> stageId]],
           state |-> advancePhase(
               [state EXCEPT
                  !.pick = stageId,
                  !.history = Append(@, [action |-> "PICK", stageId |-> stageId,
                                          prevPhase |-> state.phase])]) ]

\* handlePick without the 'not banned' validation.
handlePickBanned(state, stageId) ==
    IF ~includes(stageIds, stageId)
    THEN Fail(state, "Invalid stage: " \o stageId)
    ELSE IF state.phase # "WINNER_PICK" /\ state.phase # "LOSER_PICK"
    THEN Fail(state, "Cannot pick in phase: " \o state.phase)
    ELSE IF state.pick # Null
    THEN Fail(state, "Already picked")
    ELSE [ result |-> [ok |-> TRUE, event |-> [type |-> "PICK", stageId |-> stageId]],
           state |-> advancePhase(
               [state EXCEPT
                  !.pick = stageId,
                  !.history = Append(@, [action |-> "PICK", stageId |-> stageId,
                                          prevPhase |-> state.phase])]) ]

handlePick(state, stageId) ==
    IF ~includes(stageIds, stageId)
    THEN Fail(state, "Invalid stage: " \o stageId)
    ELSE IF includes(state.bans, stageId)
    THEN Fail(state, "Cannot pick banned stage: " \o stageId)
    ELSE IF state.phase # "WINNER_PICK" /\ state.phase # "LOSER_PICK"
    THEN Fail(state, "Cannot pick in phase: " \o state.phase)
    ELSE IF state.pick # Null
    THEN Fail(state, "Already picked")
    ELSE [ result |-> [ok |-> TRUE, event |-> [type |-> "PICK", stageId |-> stageId]],
           state |-> advancePhase(
               [state EXCEPT
                  !.pick = stageId,
                  !.history = Append(@, [action |-> "PICK", stageId |-> stageId,
                                          prevPhase |-> state.phase])]) ]

\* handleUndo that reverts the data but not the phase.
handleUndoKeepPhase(state) ==
    IF Len(state.history) = 0
    THEN Fail(state, "Nothing to undo")
    ELSE LET lastAction == state.history[Len(state.history)]
             popped == [state EXCEPT !.history = SubSeq(@, 1, Len(@) - 1)]
             undone ==
                 IF lastAction.action = "BAN"
                 THEN [popped EXCEPT !.bans = filterOut(@, lastAction.stageId)]
                 ELSE IF lastAction.action = "PICK"
                 THEN [popped EXCEPT !.pick = Null]
                 ELSE popped
         IN [ result |-> [ok |-> TRUE], state |-> undone ]

\* handleUndo that leaves the pick in place when it reverts a PICK.
handleUndoKeepPick(state) ==
    IF Len(state.history) = 0
    THEN Fail(state, "Nothing to undo")
    ELSE LET lastAction == state.history[Len(state.history)]
             popped == [state EXCEPT !.history = SubSeq(@, 1, Len(@) - 1)]
             undone ==
                 IF lastAction.action = "BAN"
                 THEN [popped EXCEPT !.bans = filterOut(@, lastAction.stageId)]
                 ELSE popped
         IN [ result |-> [ok |-> TRUE],
              state |-> [undone EXCEPT !.phase = lastAction.prevPhase] ]

handleUndo(state) ==
    IF Len(state.history) = 0
    THEN Fail(state, "Nothing to undo")
    ELSE LET lastAction == state.history[Len(state.history)]
             popped == [state EXCEPT !.history = SubSeq(@, 1, Len(@) - 1)]
             undone ==
                 IF lastAction.action = "BAN"
                 THEN [popped EXCEPT !.bans = filterOut(@, lastAction.stageId)]
                 ELSE IF lastAction.action = "PICK"
                 THEN [popped EXCEPT !.pick = Null]
                 ELSE popped
         IN [ result |-> [ok |-> TRUE],
              state |-> [undone EXCEPT !.phase = lastAction.prevPhase] ]

\* handleReset that falls back to the default mode.
handleResetDefaultMode(state) ==
    [ result |-> [ok |-> TRUE], state |-> createInitialState("G1") ]

\* handleReset replaces the map entry; the new entry is returned as the state.
handleReset(state) ==
    [ result |-> [ok |-> TRUE], state |-> createInitialState(state.mode) ]

\* handleSetMode without the validation of the mode.
handleSetModeAny(state, mode) ==
    [ result |-> [ok |-> TRUE, newState |-> createInitialState(mode)],
      state |-> state ]

handleSetMode(state, mode) ==
    IF mode # "G1" /\ mode # "G2PLUS"
    THEN Fail(state, "Invalid mode: " \o mode)
    ELSE [ result |-> [ok |-> TRUE, newState |-> createInitialState(mode)],
           state |-> state ]

\* The table with the G1 row used for both modes.
transitionsOneTable(mode, phase) ==
    CASE phase = "WINNER_BAN" -> "LOSER_BAN"
      [] phase = "LOSER_BAN" -> "WINNER_PICK"
      [] phase = "WINNER_PICK" -> "DONE"
      [] phase = "DONE" -> "DONE"
      [] OTHER -> Undefined

\* The table of handleForceNextPhase; Undefined where the table has no entry.
transitions(mode, phase) ==
    IF mode = "G1"
    THEN CASE phase = "WINNER_BAN" -> "LOSER_BAN"
           [] phase = "LOSER_BAN" -> "WINNER_PICK"
           [] phase = "WINNER_PICK" -> "DONE"
           [] phase = "DONE" -> "DONE"
           [] OTHER -> Undefined
    ELSE IF mode = "G2PLUS"
    THEN CASE phase = "WINNER_BAN" -> "LOSER_PICK"
           [] phase = "LOSER_PICK" -> "DONE"
           [] phase = "DONE" -> "DONE"
           [] OTHER -> Undefined
    ELSE Undefined

\* handleForceNextPhase that refuses while bans remain in the phase.
handleForceNextPhaseQuota(state) ==
    LET nextPhase == transitions(state.mode, state.phase)
    IN IF nextPhase = Undefined \/ nextPhase = state.phase
          \/ getBansRemaining(state) > 0
       THEN Fail(state, "Cannot advance phase")
       ELSE [ result |-> [ok |-> TRUE],
              state |-> [state EXCEPT
                  !.phase = nextPhase,
                  !.history = Append(@, [action |-> "FORCE_PHASE",
                                          prevPhase |-> state.phase])] ]

\* handleForceNextPhase that leaves no history entry.
handleForceNextPhaseNoEntry(state) ==
    LET nextPhase == transitions(state.mode, state.phase)
    IN IF nextPhase = Undefined \/ nextPhase = state.phase
       THEN Fail(state, "Cannot advance phase")
       ELSE [ result |-> [ok |-> TRUE],
              state |-> [state EXCEPT !.phase = nextPhase] ]

handleForceNextPhase(state) ==
    LET nextPhase == transitions(state.mode, state.phase)
    IN IF nextPhase = Undefined \/ nextPhase = state.phase
       THEN Fail(state, "Cannot advance phase")
       ELSE [ result |-> [ok |-> TRUE],
              state |-> [state EXCEPT
                  !.phase = nextPhase,
                  !.history = Append(@, [action |-> "FORCE_PHASE",
                                          prevPhase |-> state.phase])] ]

----------------------------------------------------------------------------
(* Computed state (for clients)                                            *)

getComputedState(ms, matchId) ==
    LET state == getState(ms, matchId)[matchId]
    IN [ matchId |-> matchId,
         mode |-> state.mode,
         phase |-> state.phase,
         bans |-> state.bans,
         pick |-> state.pick,
         available |-> getAvailableStages(state),
         bansRemaining |-> getBansRemaining(state),
         picksRemaining |-> getPicksRemaining(state),
         canUndo |-> Len(state.history) > 0 ]

----------------------------------------------------------------------------
(* Socket.IO handlers and the state query                                  *)

NoRequest ==
    [ handler |-> "none", socket |-> Undefined, matchId |-> JsUndefined,
      type |-> Undefined, stageId |-> Undefined, mode |-> Undefined ]

ToSocket(s) == [kind |-> "socket", id |-> s]
ToRoom(matchId) == [kind |-> "room", id |-> matchId]

\* The resolution without the connection's current match: matchId || 'default'
ResolveMatchIdNoCurrent(matchId, cur) ==
    IF Truthy(matchId) THEN matchId ELSE Default

\* matchId || currentMatchId || 'default'
ResolveMatchId(matchId, cur) ==
    IF Truthy(matchId) THEN matchId
    ELSE IF Truthy(cur) THEN cur
    ELSE Default

\* The switch of socket.on('action'): the handler's result and the map after it.
Dispatch(ms, matchId, type, stageId, mode) ==
    LET ms0 == getState(ms, matchId)
        state == ms0[matchId]
    IN CASE type = "BAN" ->
              LET h == handleBan(state, stageId)
              IN [result |-> h.result, ms |-> MapSet(ms0, matchId, h.state)]
         [] type = "PICK" ->
              LET h == handlePick(state, stageId)
              IN [result |-> h.result, ms |-> MapSet(ms0, matchId, h.state)]
         [] type = "UNDO" ->
              LET h == handleUndo(state)
              IN [result |-> h.result, ms |-> MapSet(ms0, matchId, h.state)]
         [] type = "RESET" ->
              LET h == handleReset(state)
              IN [result |-> h.result, ms |-> MapSet(ms0, matchId, h.state)]
         [] type = "SET_MODE" ->
              LET h == handleSetMode(state, mode)
              IN [result |-> h.result,
                  ms |-> IF h.result.ok /\ "newState" \in DOMAIN h.result
                         THEN MapSet(ms0, matchId, h.result.newState)
                         ELSE ms0]
         [] type = "FORCE_NEXT_PHASE" ->
              LET h == handleForceNextPhase(state)
              IN [result |-> h.result, ms |-> MapSet(ms0, matchId, h.state)]
         [] OTHER ->
              [result |-> [ok |-> FALSE, error |-> "Unknown action: " \o type],
               ms |-> ms0]

\* Emissions that broadcast the state whether or not the action succeeded.
EmissionsAlways(s, matchId, type, result, ms) ==
    << [ event |-> "action:result", to |-> [kind |-> "socket", id |-> s],
         payload |-> [ type |-> type, ok |-> result.ok,
                       error |-> IF "error" \in DOMAIN result THEN result.error
                                 ELSE Undefined ] ],
       [ event |-> "state:update", to |-> [kind |-> "room", id |-> matchId],
         payload |-> getComputedState(ms, matchId) ] >>
    \o (IF "event" \in DOMAIN result
        THEN << [ event |-> "event:push", to |-> [kind |-> "room", id |-> matchId],
                  payload |-> result.event ] >>
        ELSE <<>>)

\* Emissions that push the event before the state update.
EmissionsEventFirst(s, matchId, type, result, ms) ==
    << [ event |-> "action:result", to |-> [kind |-> "socket", id |-> s],
         payload |-> [ type |-> type, ok |-> result.ok,
                       error |-> IF "error" \in DOMAIN result THEN result.error
                                 ELSE Undefined ] ] >>
    \o (IF result.ok
        THEN (IF "event" \in DOMAIN result
              THEN << [ event |-> "event:push",
                        to |-> [kind |-> "room", id |-> matchId],
                        payload |-> result.event ] >>
              ELSE <<>>)
             \o << [ event |-> "state:update",
                     to |-> [kind |-> "room", id |-> matchId],
                     payload |-> getComputedState(ms, matchId) ] >>
        ELSE <<>>)

\* Emissions that send the state update to the requester instead of the room.
EmissionsToSender(s, matchId, type, result, ms) ==
    << [ event |-> "action:result", to |-> [kind |-> "socket", id |-> s],
         payload |-> [ type |-> type, ok |-> result.ok,
                       error |-> IF "error" \in DOMAIN result THEN result.error
                                 ELSE Undefined ] ] >>
    \o (IF result.ok
        THEN << [ event |-> "state:update", to |-> [kind |-> "socket", id |-> s],
                  payload |-> getComputedState(ms, matchId) ] >>
             \o (IF "event" \in DOMAIN result
                 THEN << [ event |-> "event:push",
                           to |-> [kind |-> "room", id |-> matchId],
                           payload |-> result.event ] >>
                 ELSE <<>>)
        ELSE <<>>)

\* What socket.on('action') emits, in order, for a result.
Emissions(s, matchId, type, result, ms) ==
    << [ event |-> "action:result", to |-> ToSocket(s),
         payload |-> [ type |-> type, ok |-> result.ok,
                       error |-> IF "error" \in DOMAIN result THEN result.error
                                 ELSE Undefined ] ] >>
    \o (IF result.ok
        THEN << [ event |-> "state:update", to |-> ToRoom(matchId),
                  payload |-> getComputedState(ms, matchId) ] >>
             \o (IF "event" \in DOMAIN result
                 THEN << [ event |-> "event:push", to |-> ToRoom(matchId),
                           payload |-> result.event ] >>
                 ELSE <<>>)
        ELSE <<>>)

\* The connections that receive a message: the addressed one, or the members
\* of the addressed room.
ReceiversIn(e, rms) ==
    IF e.to.kind = "socket" THEN {e.to.id} \cap Sockets
    ELSE {s \in Sockets : e.to.id \in rms[s]}

\* socket.emit and io.to(room).emit return at once and the messages travel:
\* every state:update is put, in order, behind the messages already on their
\* way to each connection it is addressed to. (The action:result and
\* event:push messages travel too; the pages keep nothing of them.)
RECURSIVE Send(_, _, _)
Send(chan, msgs, rms) ==
    IF msgs = <<>> THEN chan
    ELSE LET e == Head(msgs)
             next == IF e.event = "state:update"
                     THEN [ s \in Sockets |->
                              IF s \in ReceiversIn(e, rms)
                              THEN Append(chan[s], e.payload)
                              ELSE chan[s] ]
                     ELSE chan
         IN Send(next, Tail(msgs), rms)

\* The null a page starts with in currentState, as a record so that it
\* compares with a view.
NoState == [matchId |-> JsNull]

\* The page's socket.on('state:update', state => currentState = state), run
\* in the browser when the oldest message on its way arrives. The handler
\* sends nothing.
StateUpdate(s) ==
    /\ inTransit[s] # <<>>
    /\ LET state == Head(inTransit[s])
       IN /\ currentState' = [currentState EXCEPT ![s] = state]
          /\ request' = [ handler |-> "state:update", socket |-> s,
                          matchId |-> state.matchId, type |-> Undefined,
                          stageId |-> Undefined, mode |-> Undefined ]
    /\ inTransit' = [inTransit EXCEPT ![s] = Tail(@)]
    /\ emitted' = <<>>
    /\ UNCHANGED <<matchStates, currentMatchId, rooms, arrived, pending>>

\* socket.on('action', ({ matchId, type, stageId, mode }) => ...)
Action(s, matchId, type, stageId, mode) ==
    LET mid == ResolveMatchId(matchId, currentMatchId[s])
        d == Dispatch(matchStates, mid, type, stageId, mode)
    IN /\ matchStates' = d.ms
       /\ request' = [ handler |-> "action", socket |-> s, matchId |-> matchId,
                       type |-> type, stageId |-> stageId, mode |-> mode ]
       /\ emitted' = Emissions(s, mid, type, d.result, d.ms)
       /\ inTransit' = Send(inTransit, emitted', rooms)
       /\ UNCHANGED <<currentMatchId, rooms, currentState>>

\* socket.on('join', ({ matchId }) => ...)
Join(s, matchId) ==
    LET mid == IF Truthy(matchId) THEN matchId ELSE Default
    IN /\ currentMatchId' = [currentMatchId EXCEPT ![s] = mid]
       /\ rooms' = [rooms EXCEPT ![s] = @ \cup {mid}]
       /\ matchStates' = getState(matchStates, mid)
       /\ request' = [NoRequest EXCEPT !.handler = "join", !.socket = s,
                                        !.matchId = matchId]
       /\ emitted' = << [ event |-> "state:update", to |-> ToSocket(s),
                          payload |-> getComputedState(matchStates, mid) ] >>
       /\ inTransit' = Send(inTransit, emitted', rooms')
       /\ UNCHANGED currentState

\* app.get('/api/state')
ApiState(match) ==
    LET mid == IF Truthy(match) THEN match ELSE Default
    IN /\ matchStates' = getState(matchStates, mid)
       /\ request' = [NoRequest EXCEPT !.handler = "api/state", !.socket = "http",
                                        !.matchId = match]
       /\ emitted' = << [ event |-> "response", to |-> ToSocket("http"),
                          payload |-> getComputedState(matchStates, mid) ] >>
       /\ UNCHANGED <<currentMatchId, rooms, inTransit, currentState>>

----------------------------------------------------------------------------
(* The environment: the requests the connections send                       *)

ActionTypes == {"BAN", "PICK", "UNDO", "RESET", "SET_MODE", "FORCE_NEXT_PHASE"}
TypeInputs == ActionTypes \cup {"NOPE"}
ModeInputs == {"G1", "G2PLUS", "G3"}
\* The match a request names: none (which falls back to "default") or "m1".
MatchInputs == {JsUndefined, M1}

FirstN(seq, n) == SubSeq(seq, 1, IF Len(seq) < n THEN Len(seq) ELSE n)

\* The stage ids a request names in a state of the match: the first stages
\* still available, the first banned ones, and one unknown id.
StageInputs(ms, mid, fresh) ==
    LET state == getState(ms, mid)[mid]
    IN Range(FirstN(getAvailableStages(state), fresh))
       \cup Range(FirstN(filterNotIn(stageIds, getAvailableStages(state)), MaxBanned))
       \cup {BadStage}

\* An action request: a stage id only with BAN and PICK, a mode only with SET_MODE.
\* The message is handled as it arrives: nothing waits in the queue.
SendAction(s, matchId, fresh) ==
    LET mid == ResolveMatchId(matchId, currentMatchId[s])
    IN /\ UNCHANGED <<arrived, pending>>
       /\ \E type \in TypeInputs :
          \/ /\ type \in {"BAN", "PICK"}
             /\ \E stageId \in StageInputs(matchStates, mid, fresh) :
                   Action(s, matchId, type, stageId, Undefined)
          \/ /\ type = "SET_MODE"
             /\ \E mode \in ModeInputs : Action(s, matchId, type, Undefined, mode)
          \/ /\ type \notin {"BAN", "PICK", "SET_MODE"}
             /\ Action(s, matchId, type, Undefined, Undefined)

Init ==
    /\ matchStates = [m \in {} |-> createInitialState("G1")]
    /\ currentMatchId = [s \in Sockets |-> JsNull]
    /\ rooms = [s \in Sockets |-> {}]
    /\ request = NoRequest
    /\ emitted = <<>>
    /\ inTransit = [s \in Sockets |-> <<>>]
    /\ currentState = [s \in Sockets |-> NoState]
    /\ arrived = <<>>
    /\ pending = <<>>

\* One client that sends actions for the match "default" and has joined no
\* room, so that no state:update is addressed to a connection, and state
\* queries. The server takes the messages of any client of the socket: the
\* types, stage ids and modes are also ones the buttons of the control page
\* never send.
ControlAction == SendAction("s1", Default, MaxFresh)
ControlQuery ==
    /\ \E match \in {JsUndefined, Str("")} : ApiState(match)
    /\ UNCHANGED <<arrived, pending>>

Next == ControlAction \/ ControlQuery

Spec == Init /\ [][Next]_vars

\* A client sends one of the messages reqs, while the clients have sent fewer
\* than max in all: it reaches the server and is queued behind the ones not
\* yet handled.
Arrive(reqs, max) ==
    /\ Len(arrived) < max
    /\ \E req \in reqs :
          /\ arrived' = Append(arrived, req)
          /\ pending' = Append(pending, req)
    /\ UNCHANGED <<matchStates, currentMatchId, rooms, request, emitted,
                   inTransit, currentState>>

\* The event loop runs the callback of the oldest waiting message to its end
\* before it takes the next.
Handle ==
    /\ pending # <<>>
    /\ LET req == Head(pending)
       IN CASE req.handler = "join" -> Join(req.socket, req.matchId)
            [] req.handler = "api/state" -> ApiState(req.matchId)
            [] OTHER -> Action(req.socket, req.matchId, req.type, req.stageId,
                               req.mode)
    /\ pending' = Tail(pending)
    /\ UNCHANGED arrived

\* A page handles the oldest state:update on its way to it.
Page == \E s \in Sockets : StateUpdate(s)

JoinRequest(s, matchId) ==
    [NoRequest EXCEPT !.handler = "join", !.socket = s, !.matchId = matchId]
ActionRequest(s, matchId, type, stageId, mode) ==
    [ handler |-> "action", socket |-> s, matchId |-> matchId, type |-> type,
      stageId |-> stageId, mode |-> mode ]
QueryRequest(match) ==
    [NoRequest EXCEPT !.handler = "api/state", !.socket = "http",
                      !.matchId = match]

\* Several connections and matches: both connections join, with and without a
\* match id, "s1" also sends actions of every type, with and without a match
\* id, and state queries arrive; the pages handle the state:update messages
\* when these arrive.
RoomsRequests ==
    { JoinRequest(s, matchId) : s \in Sockets, matchId \in MatchInputs }
    \cup { ActionRequest("s1", matchId, r[1], r[2], r[3]) :
             matchId \in MatchInputs,
             r \in ({"BAN", "PICK"} \X Range(FirstN(stageIds, MaxFresh))
                      \X {Undefined})
                   \cup {<<"UNDO", Undefined, Undefined>>,
                         <<"RESET", Undefined, Undefined>>,
                         <<"SET_MODE", Undefined, "G2PLUS">>,
                         <<"FORCE_NEXT_PHASE", Undefined, Undefined>>} }
    \cup { QueryRequest(match) : match \in MatchInputs }

RoomsArrive == Arrive(RoomsRequests, MaxRoomsArrivals)

NextRooms == RoomsArrive \/ Handle \/ Page

SpecRooms == Init /\ [][NextRooms]_vars

\* Concurrent connections: the pages join "default" and send bans of the first
\* stages and of an id outside the catalog and undos for that match; the
\* messages reach the server in any order and wait for the event loop.
ConcRequests ==
    { JoinRequest(s, Default) : s \in Sockets }
    \cup { ActionRequest(s, Default, r[1], r[2], Undefined) :
             s \in Sockets,
             r \in ({"BAN"} \X (Range(FirstN(stageIds, MaxFresh)) \cup {BadStage}))
                   \cup {<<"UNDO", Undefined>>} }

ConcArrive == Arrive(ConcRequests, MaxArrivals)

NextConc == ConcArrive \/ Handle \/ Page

SpecConc == Init /\ [][NextConc]_vars

\* The match "default" as the next request finds it.
StartOf(ms) == getState(ms, Default)[Default]

\* A selection played forward: the controller chooses the mode while nothing is
\* recorded yet, then sends only BAN, PICK and FORCE_NEXT_PHASE requests that
\* succeed, and keeps sending them while one can succeed.
ForwardMode ==
    /\ \A m \in DOMAIN matchStates : matchStates[m].history = <<>>
    /\ \E mode \in {"G1", "G2PLUS"} :
          Action("s1", Default, "SET_MODE", Undefined, mode)
    /\ UNCHANGED <<arrived, pending>>

ForwardBan ==
    /\ \E stageId \in Range(FirstN(getAvailableStages(StartOf(matchStates)),
                                     MaxFresh)) :
          Action("s1", Default, "BAN", stageId, Undefined)
    /\ emitted'[1].payload.ok
    /\ UNCHANGED <<arrived, pending>>

ForwardPick ==
    /\ \E stageId \in Range(FirstN(getAvailableStages(StartOf(matchStates)),
                                     MaxFresh + 1)) :
          Action("s1", Default, "PICK", stageId, Undefined)
    /\ emitted'[1].payload.ok
    /\ UNCHANGED <<arrived, pending>>

ForwardForce ==
    /\ Action("s1", Default, "FORCE_NEXT_PHASE", Undefined, Undefined)
    /\ emitted'[1].payload.ok
    /\ UNCHANGED <<arrived, pending>>

ForwardStep == ForwardBan \/ ForwardPick \/ ForwardForce

NextForward == ForwardMode \/ ForwardBan \/ ForwardPick \/ ForwardForce

SpecForward == Init /\ [][NextForward]_vars /\ WF_vars(ForwardStep)

----------------------------------------------------------------------------
(* Properties                                                              *)

\* The state of a match as a handler finds it (getState creates it on demand).
StateOf(ms, m) == getState(ms, m)[m]

\* The match the dispatcher resolves for an action request.
MatchOf(req, cur) == ResolveMatchId(req.matchId, cur[req.socket])

Catalog == Range(stageIds)

LastOk == request.handler = "action" /\ emitted[1].payload.ok

\* C1: in every reachable state of a match, bans.length is at most 7 in mode G1
\* and at most 3 in mode G2PLUS.
C1_BanQuota ==
    \A m \in DOMAIN matchStates :
        /\ matchStates[m].mode = "G1" => Len(matchStates[m].bans) <= 7
        /\ matchStates[m].mode = "G2PLUS" => Len(matchStates[m].bans) <= 3

\* A G1 match that has just taken its 7th ban.
C1_Witness ==
    /\ LastOk /\ request.type = "BAN"
    /\ Default \in DOMAIN matchStates
    /\ matchStates[Default].mode = "G1"
    /\ Len(matchStates[Default].bans) = 7

\* C2: bans holds no stage id twice, every banned id is a catalog id, and pick,
\* when set, is a catalog id that is not in bans.
C2_BansAndPickDistinct ==
    \A m \in DOMAIN matchStates :
        LET st == matchStates[m]
        IN /\ \A i, j \in DOMAIN st.bans : st.bans[i] = st.bans[j] => i = j
           /\ Range(st.bans) \subseteq Catalog
           /\ st.pick # Null => st.pick \in Catalog \ Range(st.bans)

\* A match with a pick made after bans.
C2_Witness ==
    /\ LastOk /\ request.type = "PICK"
    /\ matchStates[Default].pick # Null
    /\ Len(matchStates[Default].bans) >= 3

\* The successful BAN, PICK and FORCE_NEXT_PHASE requests possible in a state.
Forward(ms, m) ==
    { r \in ({"BAN", "PICK"} \X Catalog) \cup {<<"FORCE_NEXT_PHASE", Undefined>>} :
        Dispatch(ms, m, r[1], r[2], Undefined).result.ok }

\* C3: from every reachable state S, a successful BAN, PICK or
\* FORCE_NEXT_PHASE followed at once by UNDO succeeds and restores bans (same
\* ids, same order), pick, phase, mode and history of S.
C3_UndoInverts ==
    \A m \in DOMAIN matchStates :
        \A r \in Forward(matchStates, m) :
            LET after == Dispatch(matchStates, m, r[1], r[2], Undefined).ms
                undo == Dispatch(after, m, "UNDO", Undefined, Undefined)
            IN /\ after[m] # matchStates[m]
               /\ undo.result.ok
               /\ undo.ms[m] = matchStates[m]

\* An UNDO has just reverted the 7th ban of a G1 match: the state is again one
\* where a ban changes the phase.
C3_Witness ==
    /\ LastOk /\ request.type = "UNDO"
    /\ matchStates[Default].mode = "G1"
    /\ matchStates[Default].phase = "LOSER_BAN"
    /\ Len(matchStates[Default].bans) = 6
    /\ Forward(matchStates, Default) # {}

\* The history holds only BAN entries, then at most one PICK entry.
OnlyBansThenPick(st) ==
    \A i \in DOMAIN st.history :
        \/ st.history[i].action = "BAN"
        \/ st.history[i].action = "PICK" /\ i = Len(st.history)

\* C4: in a G1 match that took only successful BANs and then a PICK, phase is
\* WINNER_BAN below 3 bans, LOSER_BAN from the 3rd ban (bansRemaining 4 there)
\* to the 6th, WINNER_PICK at the 7th (bansRemaining 0, picksRemaining 1), DONE
\* with pick set after the PICK, and an UNDO from there gives WINNER_PICK with
\* pick = null.
C4_G1Walk ==
    \A m \in DOMAIN matchStates :
        LET st == matchStates[m]
            n == Len(st.bans)
            view == getComputedState(matchStates, m)
            undone == Dispatch(matchStates, m, "UNDO", Undefined, Undefined).ms[m]
        IN (st.mode = "G1" /\ OnlyBansThenPick(st)) =>
            IF st.pick # Null
            THEN /\ st.phase = "DONE" /\ n = 7
                 /\ undone.phase = "WINNER_PICK" /\ undone.pick = Null
            ELSE /\ n < 3 => st.phase = "WINNER_BAN"
                 /\ n = 3 => st.phase = "LOSER_BAN" /\ view.bansRemaining = 4
                 /\ (3 <= n /\ n < 7) => st.phase = "LOSER_BAN"
                 /\ n = 7 => /\ st.phase = "WINNER_PICK"
                             /\ view.bansRemaining = 0
                             /\ view.picksRemaining = 1

\* The G1 walk has reached DONE: seven bans and the pick, nothing forced.
C4_Witness ==
    /\ LastOk /\ request.type = "PICK"
    /\ matchStates[Default].mode = "G1"
    /\ OnlyBansThenPick(matchStates[Default])
    /\ Len(matchStates[Default].history) = 8
    /\ matchStates[Default].phase = "DONE"

\* C5: in mode G2PLUS the 3rd successful BAN moves WINNER_BAN to LOSER_PICK and
\* a successful PICK moves LOSER_PICK to DONE; the phase is never LOSER_BAN or
\* WINNER_PICK in mode G2PLUS and never LOSER_PICK in mode G1.
C5_G2PlusPhases ==
    \A m \in DOMAIN matchStates :
        LET st == matchStates[m]
        IN /\ st.mode = "G2PLUS" => st.phase \notin {"LOSER_BAN", "WINNER_PICK"}
           /\ st.mode = "G1" => st.phase # "LOSER_PICK"
           /\ st.mode = "G2PLUS" =>
                \A id \in Catalog :
                    LET ban == Dispatch(matchStates, m, "BAN", id, Undefined)
                        pick == Dispatch(matchStates, m, "PICK", id, Undefined)
                    IN /\ ban.result.ok =>
                            /\ st.phase = "WINNER_BAN"
                            /\ ban.ms[m].phase =
                                 (IF Len(st.bans) = 2 THEN "LOSER_PICK"
                                  ELSE "WINNER_BAN")
                       /\ pick.result.ok =>
                            /\ st.phase = "LOSER_PICK"
                            /\ pick.ms[m].phase = "DONE"

\* A G2PLUS match whose 3rd ban has just moved it to LOSER_PICK.
C5_Witness ==
    /\ LastOk /\ request.type = "BAN"
    /\ matchStates[Default].mode = "G2PLUS"
    /\ Len(matchStates[Default].bans) = 3
    /\ matchStates[Default].phase = "LOSER_PICK"

\* The connections that receive a message: the addressed one, or the members
\* of the addressed room.
Receivers(e) == ReceiversIn(e, rooms)

\* An action request has just been handled and failed.
LastFailed == request.handler = "action" /\ ~emitted[1].payload.ok

\* C6: when an action fails (whatever the error), mode, phase, bans, pick and
\* history of every match are what they were, the requester alone gets an
\* action:result with ok = false and the error, and no state:update or
\* event:push is sent.
C6_FailureIsSilent ==
    [][ LET mid == MatchOf(request', currentMatchId)
            out == Dispatch(matchStates, mid, request'.type, request'.stageId,
                            request'.mode)
        IN (request'.handler = "action" /\ ~out.result.ok) =>
            /\ \A m \in MatchIds : StateOf(matchStates', m) = StateOf(matchStates, m)
            /\ Len(emitted') = 1
            /\ emitted'[1].event = "action:result"
            /\ emitted'[1].to = ToSocket(request'.socket)
            /\ emitted'[1].payload = [ type |-> request'.type, ok |-> FALSE,
                                       error |-> out.result.error ]
            /\ \A i \in DOMAIN emitted' :
                  emitted'[i].event \notin {"state:update", "event:push"}
      ]_vars

\* An unknown action type has just failed on a match that has a ban and a
\* history.
C6_Witness ==
    /\ LastFailed /\ request.type = "NOPE"
    /\ request.matchId = Default
    /\ matchStates[Default].bans # <<>>
    /\ matchStates[Default].history # <<>>
    /\ Len(emitted) = 1

\* C7: a successful action emits, in this order, action:result with ok = true
\* to the requester, one state:update with the derived view after the action to
\* the room of the match, and, for BAN and PICK only, one event:push with the
\* stage id.
C7_SuccessEmissions ==
    [][ LET mid == MatchOf(request', currentMatchId)
            out == Dispatch(matchStates, mid, request'.type, request'.stageId,
                            request'.mode)
        IN (request'.handler = "action" /\ out.result.ok) =>
            emitted' =
              << [ event |-> "action:result", to |-> ToSocket(request'.socket),
                   payload |-> [ type |-> request'.type, ok |-> TRUE,
                                 error |-> Undefined ] ],
                 [ event |-> "state:update", to |-> ToRoom(mid),
                   payload |-> getComputedState(matchStates', mid) ] >>
              \o (IF request'.type \in {"BAN", "PICK"}
                  THEN << [ event |-> "event:push", to |-> ToRoom(mid),
                            payload |-> [ type |-> request'.type,
                                          stageId |-> request'.stageId ] ] >>
                  ELSE <<>>)
      ]_vars

\* A PICK has just succeeded: its result, the view with the pick and the
\* event, the last two for the room of the match.
C7_Witness ==
    /\ LastOk /\ request.type = "PICK"
    /\ Len(emitted) = 3
    /\ emitted[2].to = ToRoom(Default)
    /\ emitted[2].payload.pick = request.stageId
    /\ emitted[3].to = ToRoom(Default)

\* C8: SET_MODE with G1 or G2PLUS succeeds in every state and leaves the match
\* fresh in that mode; with any other value it fails with the invalid-mode
\* error and the match is unchanged.
C8_SetMode ==
    [][ LET mid == MatchOf(request', currentMatchId)
        IN (request'.handler = "action" /\ request'.type = "SET_MODE") =>
            IF request'.mode \in {"G1", "G2PLUS"}
            THEN /\ emitted'[1].payload.ok
                 /\ matchStates'[mid] =
                      [ mode |-> request'.mode, phase |-> "WINNER_BAN",
                        bans |-> <<>>, pick |-> Null, history |-> <<>> ]
            ELSE /\ ~emitted'[1].payload.ok
                 /\ emitted'[1].payload.error = "Invalid mode: " \o request'.mode
                 /\ matchStates'[mid] = StateOf(matchStates, mid)
      ]_vars

\* SET_MODE G2PLUS has just succeeded.
C8_Witness ==
    /\ LastOk /\ request.type = "SET_MODE" /\ request.mode = "G2PLUS"
    /\ matchStates[Default].mode = "G2PLUS"

\* C9: RESET succeeds in every state and leaves the match fresh in the mode it
\* had.
C9_Reset ==
    [][ LET mid == MatchOf(request', currentMatchId)
        IN (request'.handler = "action" /\ request'.type = "RESET") =>
            /\ emitted'[1].payload.ok
            /\ matchStates'[mid] =
                 [ mode |-> StateOf(matchStates, mid).mode, phase |-> "WINNER_BAN",
                   bans |-> <<>>, pick |-> Null, history |-> <<>> ]
      ]_vars

\* RESET has just succeeded on a G2PLUS match.
C9_Witness ==
    /\ LastOk /\ request.type = "RESET"
    /\ matchStates[Default].mode = "G2PLUS"

\* The successor of a phase in the table of each mode.
Successor(mode, phase) ==
    CASE mode = "G1" /\ phase = "WINNER_BAN" -> "LOSER_BAN"
      [] mode = "G1" /\ phase = "LOSER_BAN" -> "WINNER_PICK"
      [] mode = "G1" /\ phase = "WINNER_PICK" -> "DONE"
      [] mode = "G2PLUS" /\ phase = "WINNER_BAN" -> "LOSER_PICK"
      [] mode = "G2PLUS" /\ phase = "LOSER_PICK" -> "DONE"
      [] OTHER -> "none"

\* C10: FORCE_NEXT_PHASE fails with the cannot-advance error exactly when phase
\* is DONE; otherwise it succeeds whatever the counts, sets phase to the table
\* successor, pushes one history entry with the previous phase and no stage
\* id, and leaves mode, bans and pick unchanged.
C10_ForceNextPhase ==
    [][ LET mid == MatchOf(request', currentMatchId)
            st == StateOf(matchStates, mid)
        IN (request'.handler = "action" /\ request'.type = "FORCE_NEXT_PHASE") =>
            IF st.phase = "DONE"
            THEN /\ ~emitted'[1].payload.ok
                 /\ emitted'[1].payload.error = "Cannot advance phase"
                 /\ matchStates'[mid] = st
            ELSE /\ emitted'[1].payload.ok
                 /\ matchStates'[mid] =
                      [ st EXCEPT
                          !.phase = Successor(st.mode, st.phase),
                          !.history = Append(@, [ action |-> "FORCE_PHASE",
                                                  prevPhase |-> st.phase ]) ]
      ]_vars

\* FORCE_NEXT_PHASE has just moved a G1 match with one ban to LOSER_BAN.
C10_Witness ==
    /\ LastOk /\ request.type = "FORCE_NEXT_PHASE"
    /\ matchStates[Default].mode = "G1"
    /\ matchStates[Default].phase = "LOSER_BAN"
    /\ Len(matchStates[Default].bans) = 1

\* The match a handled request addresses: for an action the one the dispatcher
\* resolves, for a join or a state query the one named, "default" if none.
TargetOf(req, cur) ==
    IF req.handler = "action" THEN MatchOf(req, cur)
    ELSE IF Truthy(req.matchId) THEN req.matchId
    ELSE Default

FreshG1 ==
    [ mode |-> "G1", phase |-> "WINNER_BAN", bans |-> <<>>, pick |-> Null,
      history |-> <<>> ]

\* The step runs a handler of the server for the oldest waiting message.
Handling == arrived' = arrived /\ pending' # pending

\* C11: an action, join or state query addressed to a match changes no field of
\* any other match and creates no other match, and a match referenced for the
\* first time starts as mode G1, phase WINNER_BAN, no bans, no pick, empty
\* history (an action then applies to exactly that state) whatever the other
\* matches hold; nothing but a handler changes a match.
C11_MatchesIsolated ==
    [][ IF Handling
        THEN LET mid == TargetOf(request', currentMatchId)
             IN /\ DOMAIN matchStates' = DOMAIN matchStates \cup {mid}
                /\ \A m \in DOMAIN matchStates \ {mid} :
                      matchStates'[m] = matchStates[m]
                /\ mid \notin DOMAIN matchStates =>
                     matchStates'[mid] =
                       IF request'.handler = "action"
                       THEN Dispatch([m \in {mid} |-> FreshG1], mid,
                                     request'.type, request'.stageId,
                                     request'.mode).ms[mid]
                       ELSE FreshG1
        ELSE matchStates' = matchStates
      ]_vars

\* Both matches are in progress, "default" with a ban and "m1" two phases on,
\* and a PICK has just succeeded on "m1".
C11_Witness ==
    /\ LastOk /\ request.type = "PICK" /\ request.matchId = M1
    /\ DOMAIN matchStates = {Default, M1}
    /\ matchStates[Default].bans # <<>>
    /\ matchStates[M1].pick # Null
    /\ Len(matchStates[M1].history) = 3

\* Both matches were in progress and a RESET has just cleared "m1" alone.
C11_ResetWitness ==
    /\ LastOk /\ request.type = "RESET" /\ request.matchId = M1
    /\ Len(arrived) >= 3 /\ arrived[2].matchId = M1 /\ arrived[2].type = "BAN"
    /\ DOMAIN matchStates = {Default, M1}
    /\ matchStates[Default].bans # <<>>
    /\ matchStates[M1] = FreshG1

\* A handled request without a match id addresses the match 'target': an
\* action is dispatched on it and broadcast to its room, a join enters its room
\* and gets its view, a state query gets its view.
NoMatchIdUses(target) ==
    request'.matchId = JsUndefined =>
        CASE request'.handler = "action" ->
               LET out == Dispatch(matchStates, target, request'.type,
                                   request'.stageId, request'.mode)
               IN /\ matchStates' = out.ms
                  /\ emitted'[1].payload.ok = out.result.ok
                  /\ out.result.ok => /\ emitted'[2].to = ToRoom(target)
                                      /\ emitted'[2].payload.matchId = target
          [] request'.handler = "join" ->
               /\ currentMatchId'[request'.socket] = target
               /\ target \in rooms'[request'.socket]
               /\ emitted'[1].payload.matchId = target
          [] request'.handler = "api/state" ->
               emitted'[1].payload.matchId = target
          [] OTHER -> TRUE

\* C12 as claimed: an action, join or state query without a match id uses the
\* match "default", whatever the connection did before.
C12_NoMatchIdIsDefault == [][ Handling => NoMatchIdUses(Default) ]_vars

\* C12, amended: an action without a match id is applied to the match the
\* connection joined last, and to "default" only if the connection has joined
\* none; a join or state query without a match id uses "default".
C12_NoMatchIdIsCurrent ==
    [][ Handling =>
          NoMatchIdUses(
            IF request'.handler = "action"
               /\ currentMatchId[request'.socket] # JsNull
            THEN currentMatchId[request'.socket]
            ELSE Default) ]_vars

\* A connection joined "default" (a join without a match id) and then "m1",
\* and its action without a match id has just succeeded on "m1".
C12_Witness ==
    /\ LastOk /\ request.matchId = JsUndefined
    /\ rooms[request.socket] = {Default, M1}
    /\ currentMatchId[request.socket] = M1
    /\ emitted[2].to = ToRoom(M1)
    /\ matchStates[Default].history = <<>>

\* A connection joined "m1" and then "default", and its action without a
\* match id has just succeeded on "default".
C12_BackWitness ==
    /\ LastOk /\ request.matchId = JsUndefined
    /\ rooms[request.socket] = {Default, M1}
    /\ currentMatchId[request.socket] = Default
    /\ emitted[2].to = ToRoom(Default)
    /\ matchStates[M1].history = <<>>

\* The views of the match m among the views chan, in their order.
RECURSIVE TransitFor(_, _)
TransitFor(chan, m) ==
    IF chan = <<>> THEN <<>>
    ELSE (IF Head(chan).matchId = m THEN <<Head(chan)>> ELSE <<>>)
            \o TransitFor(Tail(chan), m)

\* The view the page of s holds, if it holds one, followed by the state:update
\* messages on their way to it.
HeldBy(s) ==
    (IF currentState[s] # NoState THEN <<currentState[s]>> ELSE <<>>)
        \o inTransit[s]

\* For each match a connection joined, the newest state:update sent to it for
\* that match is the match's current view: the last one on its way, or, when
\* none is on its way, the one its page holds if that is a view of the match
\* (the page keeps one view, the one it handled last, whatever its match).
JoinedIsCurrent ==
    \A s \in Sockets :
        \A m \in rooms[s] :
            LET sent == TransitFor(HeldBy(s), m)
            IN sent # <<>> =>
                  sent[Len(sent)] = getComputedState(matchStates, m)

\* A join emits one state:update with the match's view to the joining
\* connection, reaches no other connection and changes no field of a match.
JoinStep ==
    (Handling /\ request'.handler = "join") =>
        LET s == request'.socket
            mid == TargetOf(request', currentMatchId)
        IN /\ emitted' = << [ event |-> "state:update", to |-> ToSocket(s),
                              payload |-> getComputedState(matchStates', mid) ] >>
           /\ getComputedState(matchStates', mid) = getComputedState(matchStates, mid)
           /\ inTransit' = [inTransit EXCEPT
                              ![s] = Append(@, getComputedState(matchStates', mid))]
           /\ currentState' = currentState
           /\ \A m \in MatchIds : StateOf(matchStates', m) = StateOf(matchStates, m)

\* C13: a join of M sends exactly one state:update with M's current view, to
\* the joining connection only, and changes no match; from then on the last
\* state:update sent to that connection for M is M's current view, after every
\* action: it is on its way to the page, or the page holds it, or the page has
\* since handled a view of another match.
C13_JoinerStaysCurrent == []JoinedIsCurrent /\ [][JoinStep]_vars

\* Both connections joined "default" and a BAN has just succeeded there: its
\* state:update is on its way to both, for "s2" behind the one of its join,
\* which its page has not yet handled.
C13_Witness ==
    /\ LastOk /\ request.type = "BAN"
    /\ \A s \in Sockets : Default \in rooms[s]
    /\ currentState["s2"] = NoState
    /\ Len(inTransit["s2"]) = 2
    /\ inTransit["s2"][1].bans = <<>>
    /\ inTransit["s2"][2] = getComputedState(matchStates, Default)
    /\ inTransit["s2"][2].bans = <<request.stageId>>
    /\ inTransit["s1"] # <<>>
    /\ inTransit["s1"][Len(inTransit["s1"])] = inTransit["s2"][2]

\* A connection joined "default" and a PICK has then succeeded there: the page
\* holds the view of before the pick and the one with the pick is on its way.
C13_PickWitness ==
    /\ request.handler = "state:update" /\ request.socket = "s2"
    /\ currentState["s2"].matchId = Default
    /\ currentState["s2"].pick = Null
    /\ Len(inTransit["s2"]) = 1
    /\ inTransit["s2"][1].pick # Null
    /\ inTransit["s2"][1] = getComputedState(matchStates, Default)

\* C14: in every reachable state, whatever the phase, the pick and the quota,
\* a BAN of an id that is in bans fails with the already-banned error, a PICK
\* of it fails with the banned-stage error, and the state is unchanged.
C14_BannedIdRejected ==
    \A m \in DOMAIN matchStates :
        \A id \in Range(matchStates[m].bans) :
            LET ban == Dispatch(matchStates, m, "BAN", id, Undefined)
                pick == Dispatch(matchStates, m, "PICK", id, Undefined)
            IN /\ ban.result = [ok |-> FALSE, error |-> "Stage already banned: " \o id]
               /\ ban.ms = matchStates
               /\ pick.result =
                    [ok |-> FALSE, error |-> "Cannot pick banned stage: " \o id]
               /\ pick.ms = matchStates

\* A BAN of a banned stage has just been rejected in phase DONE.
C14_Witness ==
    /\ LastFailed /\ request.type = "BAN"
    /\ matchStates[Default].phase = "DONE"
    /\ includes(matchStates[Default].bans, request.stageId)
    /\ emitted[1].payload.error = "Stage already banned: " \o request.stageId

\* The derived view as the claim describes it.
ExpectedView(m, st) ==
    [ matchId |-> m,
      mode |-> st.mode,
      phase |-> st.phase,
      bans |-> st.bans,
      pick |-> st.pick,
      available |-> SelectSeq(stageIds, LAMBDA id : id \notin Range(st.bans)),
      bansRemaining |->
          CASE st.phase = "WINNER_BAN" -> 3 - Len(st.bans)
            [] st.phase = "LOSER_BAN" /\ st.mode = "G1" -> 7 - Len(st.bans)
            [] OTHER -> 0,
      picksRemaining |->
          IF st.phase \in {"WINNER_PICK", "LOSER_PICK"} /\ st.pick = Null
          THEN 1 ELSE 0,
      canUndo |-> st.history # <<>> ]

\* C15: the view sent to observers is the function of the match state the
\* claim describes (available = catalog minus bans, in catalog order, the
\* picked stage included; bansRemaining; picksRemaining; canUndo), and
\* bansRemaining and picksRemaining are never negative.
C15_DerivedView ==
    /\ \A m \in DOMAIN matchStates :
          LET view == getComputedState(matchStates, m)
          IN /\ view = ExpectedView(m, matchStates[m])
             /\ view.bansRemaining >= 0
             /\ view.picksRemaining >= 0
    /\ \A i \in DOMAIN emitted :
          emitted[i].event \in {"state:update", "response"} =>
              emitted[i].payload =
                 ExpectedView(emitted[i].payload.matchId,
                              matchStates[emitted[i].payload.matchId])

\* The view broadcast after a PICK: the picked stage is still available.
C15_Witness ==
    /\ LastOk /\ request.type = "PICK"
    /\ emitted[2].payload.pick = request.stageId
    /\ includes(emitted[2].payload.available, request.stageId)
    /\ emitted[2].payload.bans # <<>>
    /\ emitted[2].payload.canUndo

\* The phase derived from the mode, the number of bans and whether pick is set.
DerivedPhase(st) ==
    LET n == Len(st.bans)
    IN IF st.pick # Null THEN "DONE"
       ELSE IF st.mode = "G1"
       THEN CASE n < 3 -> "WINNER_BAN"
              [] 3 <= n /\ n <= 6 -> "LOSER_BAN"
              [] n = 7 -> "WINNER_PICK"
              [] OTHER -> "none"
       ELSE CASE n < 3 -> "WINNER_BAN"
              [] n = 3 -> "LOSER_PICK"
              [] OTHER -> "none"

NoForcedEntry(st) ==
    \A i \in DOMAIN st.history : st.history[i].action # "FORCE_PHASE"

\* C16 as claimed: in every state whose most recent successful action on the
\* match is not UNDO and not FORCE_NEXT_PHASE, phase is the derived phase.
\* Such a state holds the match as the successful BAN, PICK, RESET or SET_MODE
\* left it, so the claim is stated on the state after each such step.
C16_DerivedUnlessJustForced ==
    [][ LET mid == MatchOf(request', currentMatchId)
        IN (/\ request'.handler = "action"
            /\ emitted'[1].payload.ok
            /\ request'.type \notin {"UNDO", "FORCE_NEXT_PHASE"}) =>
            matchStates'[mid].phase = DerivedPhase(matchStates'[mid])
      ]_vars

\* C16, amended: in every reachable state whose history holds no
\* FORCE_NEXT_PHASE entry, phase is the derived phase.
C16_DerivedUnlessForced ==
    \A m \in DOMAIN matchStates :
        NoForcedEntry(matchStates[m]) =>
            matchStates[m].phase = DerivedPhase(matchStates[m])

\* An UNDO has just taken a G1 match without forced entries back from
\* WINNER_PICK to LOSER_BAN with six bans.
C16_Witness ==
    /\ LastOk /\ request.type = "UNDO"
    /\ matchStates[Default].mode = "G1"
    /\ NoForcedEntry(matchStates[Default])
    /\ Len(matchStates[Default].history) = 6
    /\ matchStates[Default].phase = "LOSER_BAN"

\* A PICK has just succeeded on the match mid.
PickSucceeds(mid) ==
    /\ request'.handler = "action" /\ request'.type = "PICK"
    /\ emitted'[1].payload.ok
    /\ mid = MatchOf(request', currentMatchId)

\* The full quota was banned: 7 bans in G1, the first 3 in WINNER_BAN and the
\* other 4 in LOSER_BAN, or 3 bans in G2PLUS.
FullQuotaBanned(st) ==
    LET banEntries == SelectSeq(st.history, LAMBDA e : e.action = "BAN")
    IN /\ Len(st.bans) = (IF st.mode = "G1" THEN 7 ELSE 3)
       /\ Len(banEntries) = Len(st.bans)
       /\ \A i \in DOMAIN banEntries :
             banEntries[i].prevPhase =
                (IF i <= 3 THEN "WINNER_BAN" ELSE "LOSER_BAN")

\* C17 as claimed: whenever a PICK succeeds, bans.length is exactly 7 in mode
\* G1 and exactly 3 in mode G2PLUS.
C17_PickOnlyAfterQuota ==
    [][ \A mid \in MatchIds :
          PickSucceeds(mid) =>
              Len(matchStates'[mid].bans) =
                 (IF matchStates'[mid].mode = "G1" THEN 7 ELSE 3) ]_vars

\* C17, amended: whenever a PICK succeeds on a match whose history holds no
\* FORCE_NEXT_PHASE entry, bans.length is exactly 7 in mode G1 (3 bans made in
\* WINNER_BAN, then 4 made in LOSER_BAN) and exactly 3 in mode G2PLUS.
C17_UnforcedPickAfterQuota ==
    [][ \A mid \in MatchIds :
          (PickSucceeds(mid) /\ NoForcedEntry(matchStates'[mid])) =>
              FullQuotaBanned(matchStates'[mid]) ]_vars

\* A PICK has just succeeded on a G2PLUS match that was never forced.
C17_Witness ==
    /\ LastOk /\ request.type = "PICK"
    /\ matchStates[Default].mode = "G2PLUS"
    /\ NoForcedEntry(matchStates[Default])
    /\ matchStates[Default].pick = request.stageId
    /\ FullQuotaBanned(matchStates[Default])

\* The request fails with the given error, leaves the match as it was and sends
\* the requester its action:result and nothing else.
RejectedWith(m, type, stageId, mode, error) ==
    LET out == Dispatch(matchStates, m, type, stageId, mode)
    IN /\ out.result = [ok |-> FALSE, error |-> error]
       /\ out.ms = getState(matchStates, m)
       /\ \A s \in Sockets :
             Emissions(s, m, type, out.result, out.ms) =
                << [ event |-> "action:result", to |-> ToSocket(s),
                     payload |-> [ type |-> type, ok |-> FALSE,
                                   error |-> error ] ] >>

\* C18: with a catalog id that is not in bans, PICK fails with the wrong-phase
\* error in WINNER_BAN, LOSER_BAN and DONE, and BAN fails with the wrong-phase
\* error in WINNER_PICK, LOSER_PICK and DONE; the state is unchanged and only the
\* requester's action:result is sent. In phase DONE every request other than
\* UNDO, RESET and SET_MODE leaves the match unchanged.
C18_PhaseGatesKind ==
    \A m \in MatchIds :
        LET st == StateOf(matchStates, m)
        IN /\ \A id \in Catalog \ Range(st.bans) :
                /\ st.phase \in {"WINNER_BAN", "LOSER_BAN", "DONE"} =>
                      RejectedWith(m, "PICK", id, Undefined,
                                   "Cannot pick in phase: " \o st.phase)
                /\ st.phase \in {"WINNER_PICK", "LOSER_PICK", "DONE"} =>
                      RejectedWith(m, "BAN", id, Undefined,
                                   "Cannot ban in phase: " \o st.phase)
           /\ st.phase = "DONE" =>
                \A type \in TypeInputs \ {"UNDO", "RESET", "SET_MODE"} :
                    \A id \in Catalog \cup {BadStage} :
                        LET out == Dispatch(matchStates, m, type, id, Undefined)
                        IN /\ ~out.result.ok
                           /\ out.ms = getState(matchStates, m)

\* A PICK of an available stage has just been rejected in phase WINNER_BAN.
C18_Witness ==
    /\ LastFailed /\ request.type = "PICK"
    /\ request.stageId \in Catalog \ Range(matchStates[Default].bans)
    /\ matchStates[Default].phase = "WINNER_BAN"
    /\ emitted[1].payload.error = "Cannot pick in phase: WINNER_BAN"

\* The request that wrote a history entry, sent again to the match m.
Redo(ms, m, e) ==
    IF e.action = "FORCE_PHASE"
    THEN Dispatch(ms, m, "FORCE_NEXT_PHASE", Undefined, Undefined)
    ELSE Dispatch(ms, m, e.action, e.stageId, Undefined)

\* UNDO repeated on the match m until it fails: each UNDO takes the last entry
\* off the history and yields the state from which that entry's request leads
\* back to the state undone; with no entry left the match is fresh in its mode
\* and UNDO fails, changing nothing.
RECURSIVE UndoWalk(_, _)
UndoWalk(ms, m) ==
    LET st == ms[m]
        undo == Dispatch(ms, m, "UNDO", Undefined, Undefined)
    IN IF st.history = <<>>
       THEN /\ undo.result = [ok |-> FALSE, error |-> "Nothing to undo"]
            /\ undo.ms = ms
            /\ st = createInitialState(st.mode)
       ELSE /\ undo.result.ok
            /\ undo.ms[m].history = SubSeq(st.history, 1, Len(st.history) - 1)
            /\ undo.ms[m].mode = st.mode
            /\ LET redo == Redo(undo.ms, m, st.history[Len(st.history)])
               IN redo.result.ok /\ redo.ms = ms
            /\ UndoWalk(undo.ms, m)

\* C19: from every reachable state whose history holds n entries, n consecutive
\* UNDOs succeed, the k-th restoring the state that held before the k-th most
\* recent successful BAN, PICK or FORCE_NEXT_PHASE, and they end in the fresh
\* state of the current mode, where the next UNDO fails with the
\* nothing-to-undo error; UNDO fails exactly when the history is empty, as it is
\* after every RESET and SET_MODE.
C19_UndoWalksBack ==
    \A m \in DOMAIN matchStates :
        /\ UndoWalk(matchStates, m)
        /\ Dispatch(matchStates, m, "UNDO", Undefined, Undefined).result.ok
              <=> matchStates[m].history # <<>>
        /\ \A r \in {<<"RESET", Undefined>>, <<"SET_MODE", "G1">>,
                      <<"SET_MODE", "G2PLUS">>} :
              LET after == Dispatch(matchStates, m, r[1], Undefined, r[2]).ms
              IN Dispatch(after, m, "UNDO", Undefined, Undefined).result =
                    [ok |-> FALSE, error |-> "Nothing to undo"]

\* An UNDO has just taken a pick back and left a history with a ban and a
\* forced phase still to walk back.
C19_Witness ==
    /\ LastOk /\ request.type = "UNDO"
    /\ matchStates[Default].pick = Null
    /\ matchStates[Default].phase \in {"WINNER_PICK", "LOSER_PICK"}
    /\ LET h == matchStates[Default].history
       IN /\ \E i \in DOMAIN h : h[i].action = "FORCE_PHASE"
          /\ \E i \in DOMAIN h : h[i].action = "BAN"

\* The requests processed one after another, each to its end, from the state
\* ms: the final state and the result of every request.
RECURSIVE Sequentially(_, _, _)
Sequentially(ms, cur, reqs) ==
    IF reqs = <<>> THEN [ms |-> ms, results |-> <<>>]
    ELSE LET req == Head(reqs)
             d == Dispatch(ms, ResolveMatchId(req.matchId, cur[req.socket]),
                           req.type, req.stageId, req.mode)
             rest == Sequentially(d.ms, cur, Tail(reqs))
         IN [ms |-> rest.ms, results |-> <<d.result>> \o rest.results]

\* The action requests handled so far, in arrival order, and their sequential
\* outcome from the fresh match (a join changes no match).
IsAction(req) == req.handler = "action"
Handled == SelectSeq(SubSeq(arrived, 1, Len(arrived) - Len(pending)), IsAction)
StartState == getState([m \in {} |-> createInitialState("G1")], Default)
Outcome == Sequentially(StartState, currentMatchId, Handled)

\* The views that the requests which succeed broadcast, in the order of the
\* requests, when these are processed one after another from the state ms.
RECURSIVE ViewsAfter(_, _, _)
ViewsAfter(ms, cur, reqs) ==
    IF reqs = <<>> THEN <<>>
    ELSE LET req == Head(reqs)
             mid == ResolveMatchId(req.matchId, cur[req.socket])
             d == Dispatch(ms, mid, req.type, req.stageId, req.mode)
         IN (IF d.result.ok THEN <<getComputedState(d.ms, mid)>> ELSE <<>>)
               \o ViewsAfter(d.ms, cur, Tail(reqs))

\* The views of the match "default" in the order in which it went through
\* them: the fresh one, then those the handled requests broadcast.
Broadcast ==
    <<getComputedState(StartState, Default)>>
        \o ViewsAfter(StartState, currentMatchId, Handled)

\* The views held are views of 'views' in the order of 'views'; a view may be
\* held more than once (a join sends the current one again).
RECURSIVE InOrder(_, _)
InOrder(held, views) ==
    IF held = <<>> THEN TRUE
    ELSE IF views = <<>> THEN FALSE
    ELSE IF Head(held) = Head(views) THEN InOrder(Tail(held), views)
    ELSE InOrder(held, Tail(views))

\* The state and the last result are those of the sequential processing in
\* arrival order, and every connection is sent views in the order in which the
\* requests that succeeded made them: what its page holds and what is on its
\* way to it follow that order and, for a connection in the room, end with the
\* current view.
SequentialOutcome ==
    /\ Len(pending) < Len(arrived) => matchStates = Outcome.ms
    /\ \A s \in Sockets :
          /\ InOrder(HeldBy(s), Broadcast)
          /\ Default \in rooms[s] =>
                /\ HeldBy(s) # <<>>
                /\ HeldBy(s)[Len(HeldBy(s))] =
                      getComputedState(matchStates, Default)
    /\ (Handled # <<>> /\ request.handler = "action") =>
          LET last == Outcome.results[Len(Handled)]
          IN /\ request = Handled[Len(Handled)]
             /\ emitted =
                  Emissions(request.socket, Default, request.type, last,
                            Outcome.ms)

\* An action sends a state:update only when it succeeded, and a state:update
\* carries the view of the state the handler left.
UpdatesFollowSuccess ==
    \A i \in DOMAIN emitted :
        emitted[i].event = "state:update" =>
            /\ request.handler = "action" => Outcome.results[Len(Handled)].ok
            /\ emitted[i].payload = getComputedState(matchStates, Default)

\* Two BAN requests for the same stage among the handled ones, the first
\* handled before the second.
SameBanPairs ==
    { p \in (1..Len(Handled)) \X (1..Len(Handled)) :
        /\ p[1] < p[2]
        /\ Handled[p[1]].type = "BAN" /\ Handled[p[2]].type = "BAN"
        /\ Handled[p[1]].stageId = Handled[p[2]].stageId }

AlreadyBanned(id) == [ok |-> FALSE, error |-> "Stage already banned: " \o id]

\* The request handled last triggered no broadcast: its result went to the
\* sender and nothing else was sent.
Silent(j) ==
    (j = Len(Handled) /\ request.handler = "action") => Len(emitted) = 1

\* A request handled between the two of the pair took bans back: an UNDO, a
\* RESET or a SET_MODE that succeeded.
ClearedBetween(p) ==
    \E k \in (p[1] + 1)..(p[2] - 1) :
        /\ Handled[k].type \in {"UNDO", "RESET", "SET_MODE"}
        /\ Outcome.results[k].ok

\* C20 as claimed: requests sent concurrently are applied one at a time in
\* arrival order, every state:update follows a completed successful action, and
\* of two BAN requests for the same id exactly one succeeds while the other
\* fails with the already-banned error and triggers no broadcast.
C20_ExactlyOneBanSucceeds ==
    /\ SequentialOutcome
    /\ UpdatesFollowSuccess
    /\ \A p \in SameBanPairs :
          /\ Outcome.results[p[1]].ok
          /\ Outcome.results[p[2]] = AlreadyBanned(Handled[p[2]].stageId)
          /\ Silent(p[2])

\* C20, amended: requests sent concurrently are applied one at a time in
\* arrival order, every state:update follows a completed successful action, and
\* of two BAN requests for the same id with no successful UNDO, RESET or
\* SET_MODE handled between them at most one succeeds: when the first
\* succeeds the second fails with the already-banned error and triggers no
\* broadcast; when the first fails and nothing is handled between them the
\* second fails with the same error.
C20_AtMostOneBanSucceeds ==
    /\ SequentialOutcome
    /\ UpdatesFollowSuccess
    /\ \A p \in SameBanPairs :
          /\ (Outcome.results[p[1]].ok /\ ~ClearedBetween(p)) =>
                /\ Outcome.results[p[2]] = AlreadyBanned(Handled[p[2]].stageId)
                /\ Silent(p[2])
          /\ (~Outcome.results[p[1]].ok /\ p[2] = p[1] + 1) =>
                Outcome.results[p[2]] = Outcome.results[p[1]]

\* Both connections joined "default" and each then sent a BAN of the same
\* stage; the two messages waited together and the second has just failed,
\* while the state:update with the one ban is on its way to both pages.
C20_Witness ==
    /\ Len(arrived) = 4 /\ pending = <<>>
    /\ arrived[1].handler = "join" /\ arrived[2].handler = "join"
    /\ arrived[1].socket # arrived[2].socket
    /\ arrived[3].type = "BAN" /\ arrived[4].type = "BAN"
    /\ arrived[3].stageId = arrived[4].stageId
    /\ arrived[3].socket # arrived[4].socket
    /\ LastFailed
    /\ emitted[1].payload.error = "Stage already banned: " \o request.stageId
    /\ \A s \in Sockets :
          /\ Default \in rooms[s]
          /\ inTransit[s] # <<>>
          /\ inTransit[s][Len(inTransit[s])].bans = <<request.stageId>>

\* A BAN, an UNDO and a BAN of the same stage again: both bans succeeded.
C20_BothSucceed ==
    /\ Len(Handled) = 3 /\ LastOk
    /\ Handled[1].type = "BAN" /\ Handled[2].type = "UNDO"
    /\ Handled[3] = Handled[1]
    /\ Outcome.results[1].ok /\ Outcome.results[3].ok

\* The same BAN three times: the second and the third both failed, with the
\* already-banned error.
C20_BothFail ==
    /\ Len(Handled) = 3 /\ LastFailed
    /\ Handled[1].type = "BAN" /\ Handled[1].stageId \in Catalog
    /\ Handled[2].stageId = Handled[1].stageId /\ Handled[2].type = "BAN"
    /\ Handled[3].stageId = Handled[1].stageId /\ Handled[3].type = "BAN"
    /\ Outcome.results[2] = AlreadyBanned(Handled[1].stageId)
    /\ Outcome.results[3] = Outcome.results[2]

\* The positions of the PICK entries of a history.
PickEntries(st) == { i \in DOMAIN st.history : st.history[i].action = "PICK" }

\* C21: pick is set only while phase is DONE, a PICK succeeds only when pick is
\* null, and the history never holds more than one PICK entry.
C21_AtMostOnePick ==
    \A m \in DOMAIN matchStates :
        LET st == matchStates[m]
        IN /\ st.pick # Null => st.phase = "DONE"
           /\ \A id \in Catalog :
                 Dispatch(matchStates, m, "PICK", id, Undefined).result.ok
                    => st.pick = Null
           /\ Cardinality(PickEntries(st)) <= 1

\* A second PICK, of a stage that is not banned, has just been refused on a
\* match that holds its pick.
C21_Witness ==
    /\ LastFailed /\ request.type = "PICK"
    /\ matchStates[Default].pick # Null
    /\ request.stageId \in Catalog \ Range(matchStates[Default].bans)
    /\ Cardinality(PickEntries(matchStates[Default])) = 1

\* The positions of the BAN entries of a history made while phase was LOSER_BAN.
LoserBanEntries(st) ==
    { i \in DOMAIN st.history :
        st.history[i].action = "BAN" /\ st.history[i].prevPhase = "LOSER_BAN" }

\* C22: in mode G1, in every reachable state at most 4 of the ids in bans were
\* banned while phase was LOSER_BAN, and the bansRemaining reported in phase
\* LOSER_BAN never exceeds 4.
C22_LoserBanQuota ==
    \A m \in DOMAIN matchStates :
        LET st == matchStates[m]
        IN st.mode = "G1" =>
             /\ Cardinality(LoserBanEntries(st)) <= 4
             /\ st.phase = "LOSER_BAN" =>
                   getComputedState(matchStates, m).bansRemaining <= 4

\* C23 as claimed: pick is set (not null) in every reachable state whose phase
\* is DONE.
C23_DoneHasPick ==
    \A m \in DOMAIN matchStates :
        matchStates[m].phase = "DONE" => matchStates[m].pick # Null

\* The top entry of the history is of the given kind.
TopIs(st, action) ==
    st.history # <<>> /\ st.history[Len(st.history)].action = action

\* C23, amended: in every reachable state whose phase is DONE, either pick is
\* set and the top of the history is its PICK entry, or pick is null and the
\* top of the history is a FORCE_NEXT_PHASE entry made in WINNER_PICK or
\* LOSER_PICK.
C23_DoneByPickOrForce ==
    \A m \in DOMAIN matchStates :
        LET st == matchStates[m]
        IN st.phase = "DONE" =>
             \/ /\ st.pick # Null
                /\ TopIs(st, "PICK")
                /\ st.history[Len(st.history)].stageId = st.pick
             \/ /\ st.pick = Null
                /\ TopIs(st, "FORCE_PHASE")
                /\ st.history[Len(st.history)].prevPhase
                      \in {"WINNER_PICK", "LOSER_PICK"}

\* FORCE_NEXT_PHASE has just ended a selection that took its bans but no pick.
C23_Witness ==
    /\ LastOk /\ request.type = "FORCE_NEXT_PHASE"
    /\ matchStates[Default].phase = "DONE"
    /\ matchStates[Default].pick = Null
    /\ Len(matchStates[Default].bans) >= 3

\* The stage ids of the BAN entries of a history, bottom to top.
RECURSIVE BanIds(_)
BanIds(history) ==
    IF history = <<>> THEN <<>>
    ELSE (IF Head(history).action = "BAN" THEN <<Head(history).stageId>> ELSE <<>>)
         \o BanIds(Tail(history))

\* The entries of a history applied again, one after another, to a state: every
\* entry must find the phase it recorded as prevPhase and its action succeed.
RECURSIVE Replay(_, _)
Replay(state, entries) ==
    IF entries = <<>> THEN [ok |-> TRUE, state |-> state]
    ELSE LET e == Head(entries)
             out == IF e.action = "BAN" THEN handleBan(state, e.stageId)
                    ELSE IF e.action = "PICK" THEN handlePick(state, e.stageId)
                    ELSE handleForceNextPhase(state)
         IN IF state.phase = e.prevPhase /\ out.result.ok
            THEN Replay(out.state, Tail(entries))
            ELSE [ok |-> FALSE, state |-> state]

\* C24: in every reachable state the stage ids of the BAN entries of history,
\* bottom to top, are bans in order; history holds a PICK entry exactly when
\* pick is set, that entry is the top of the stack and names pick; and each
\* entry's prevPhase is the phase that held just before that entry's action:
\* the entries replayed from the fresh state of the mode each find their
\* prevPhase and rebuild the state.
C24_HistoryMirrorsData ==
    \A m \in DOMAIN matchStates :
        LET st == matchStates[m]
        IN /\ BanIds(st.history) = st.bans
           /\ PickEntries(st) # {} <=> st.pick # Null
           /\ PickEntries(st) # {} =>
                 /\ PickEntries(st) = {Len(st.history)}
                 /\ st.history[Len(st.history)].stageId = st.pick
           /\ Replay(createInitialState(st.mode), st.history)
                 = [ok |-> TRUE, state |-> st]

\* A PICK has just been recorded on top of a history with bans made in both ban
\* phases.
C24_Witness ==
    /\ LastOk /\ request.type = "PICK"
    /\ LET st == matchStates[Default]
       IN /\ TopIs(st, "PICK")
          /\ LoserBanEntries(st) # {}
          /\ Len(st.bans) > Cardinality(LoserBanEntries(st))

\* C25: in every reachable state with phase WINNER_BAN or LOSER_BAN
\* bansRemaining is at least 1, and in every reachable state with phase
\* WINNER_PICK or LOSER_PICK pick is null, so no BAN returns 'No bans remaining
\* in this phase' and no PICK returns 'Already picked', whatever stage id it
\* names.
C25_GuardsNeverDecide ==
    /\ \A m \in DOMAIN matchStates :
          LET st == matchStates[m]
          IN /\ st.phase \in {"WINNER_BAN", "LOSER_BAN"} =>
                   getComputedState(matchStates, m).bansRemaining >= 1
             /\ st.phase \in {"WINNER_PICK", "LOSER_PICK"} => st.pick = Null
             /\ \A id \in Catalog \cup {BadStage} :
                   LET ban == Dispatch(matchStates, m, "BAN", id, Undefined).result
                       pick == Dispatch(matchStates, m, "PICK", id, Undefined).result
                   IN /\ ~ban.ok => ban.error # "No bans remaining in this phase"
                      /\ ~pick.ok => pick.error # "Already picked"
    /\ LastFailed =>
          emitted[1].payload.error
             \notin {"No bans remaining in this phase", "Already picked"}

\* A BAN has just left exactly one ban to make in LOSER_BAN.
C25_Witness ==
    /\ LastOk /\ request.type = "BAN"
    /\ matchStates[Default].phase = "LOSER_BAN"
    /\ getComputedState(matchStates, Default).bansRemaining = 1

\* The history holds at most 9 entries in mode G1 and 4 in mode G2PLUS.
HistoryBounded ==
    \A m \in DOMAIN matchStates :
        Len(matchStates[m].history)
           <= (IF matchStates[m].mode = "G1" THEN 9 ELSE 4)

\* While phase is not DONE one of BAN, PICK or FORCE_NEXT_PHASE can succeed.
CanProgress ==
    \A m \in DOMAIN matchStates :
        matchStates[m].phase # "DONE" => Forward(matchStates, m) # {}

ReachedDone ==
    Default \in DOMAIN matchStates /\ matchStates[Default].phase = "DONE"

\* C26: the history of a match never holds more than 9 entries in mode G1 or 4
\* in mode G2PLUS, in every reachable state with phase other than DONE one of
\* BAN, PICK or FORCE_NEXT_PHASE can succeed, and a run that keeps taking
\* successful BAN, PICK or FORCE_NEXT_PHASE actions eventually reaches DONE.
C26_BoundedProgress ==
    /\ [](HistoryBounded /\ CanProgress)
    /\ <>ReachedDone

\* A G1 selection has ended with the longest history there is: 9 entries.
C26_Witness ==
    /\ ReachedDone
    /\ matchStates[Default].mode = "G1"
    /\ Len(matchStates[Default].history) = 9

\* C27: a connection receives room broadcasts only for the match it joined most
\* recently: the state:update and event:push of a successful action on a match
\* reach no connection whose latest join was of another match.
C27_OnlyLatestRoom ==
    LastOk =>
        \A i \in DOMAIN emitted :
            emitted[i].to.kind = "room" =>
                \A s \in Receivers(emitted[i]) :
                    currentMatchId[s] = emitted[i].to.id

====
